---- MODULE Spec2Model ----
(***************************************************************************)
(* Model of the model-cache scripts of ai-toolkit-runpod:                  *)
(*   download_models.py  download_with_retry, verify_models, main          *)
(*   test_cache.py       check_model_cache, simulate_training_load, main   *)
(* The external library calls (snapshot_download, from_pretrained,         *)
(* try_to_load_from_cache, the filesystem) are the environment: each call  *)
(* picks its outcome nondeterministically when it is made.                 *)
(***************************************************************************)
EXTENDS Integers, Sequences, FiniteSets, TLC

VARIABLES
  pc,            \* position of the running script
  repo_id,       \* download_with_retry / check_model_cache: argument
  max_retries,   \* download_with_retry: argument
  attempt,       \* download_with_retry: loop variable
  caller,        \* who called download_with_retry: "call", "main1", "main2"
  rets,          \* values returned by the finished download_with_retry calls
  log,           \* observable events, in order: <<kind, subject, detail>>
  exit_status,   \* <<>> while the process runs, <<code>> once it has ended
  cached_files,  \* check_model_cache: local list
  missing_files, \* check_model_cache: local list
  fi,            \* check_model_cache: index of the next file to look up
  mi,            \* test_cache.main: index of the next model to check
  all_cached,    \* test_cache.main: local
  can_load,      \* test_cache.main: local, <<>> until the load has run
  verdicts       \* results of the finished check_model_cache calls

vars == <<pc, repo_id, max_retries, attempt, caller, rets, log, exit_status,
          cached_files, missing_files, fi, mi, all_cached, can_load, verdicts>>

dlVars == <<repo_id, max_retries, attempt, caller, rets>>
ckVars == <<cached_files, missing_files, fi, mi, all_cached, can_load, verdicts>>

----------------------------------------------------------------------------
(* Bounds and program constants *)

MaxRetries == 4
RetryCeilings == (0 - 1)..MaxRetries

DefaultMaxRetries == 3
SizeThresholdGB == 20
MiBPerGiB == 1024

HiDream == "HiDream-ai/HiDream-I1-Full"
Llama == "unsloth/Meta-Llama-3.1-8B-Instruct"
Models == <<HiDream, Llama>>

\* Exceptions the library calls can raise; all are subclasses of Exception.
DownloadErrors == {"ConnectionError", "RepositoryNotFoundError", "OSError"}
LoadErrors == {"OSError", "ValueError"}
ExceptionKinds == DownloadErrors \cup LoadErrors \cup {"ImportError"}
\* SystemExit derives from BaseException, not from Exception.
SystemExit == "SystemExit"

\* Cache sizes in MiB, on both sides of the 20 GiB threshold.
CacheSizes == {0, SizeThresholdGB * MiBPerGiB - 1, SizeThresholdGB * MiBPerGiB,
               (SizeThresholdGB + 5) * MiBPerGiB}

\* Directories the recursive glob can list below the cache root.
HiDreamDir == "models--HiDream-ai--HiDream-I1-Full"
LlamaDir == "models--unsloth--Meta-Llama-3.1-8B-Instruct"
MetaDir == "datasets--metadata"
LocksDir == ".locks"
DirNames == {HiDreamDir, LlamaDir, MetaDir, LocksDir}

----------------------------------------------------------------------------
(* Helpers *)

Event(kind, subject, detail) == <<kind, subject, detail>>

Count(kind, subject) ==
  Cardinality({i \in DOMAIN log : log[i][1] = kind /\ log[i][2] = subject})

Positions(kind, subject) ==
  {i \in DOMAIN log : log[i][1] = kind /\ log[i][2] = subject}

Max(S) == CHOOSE x \in S : \A y \in S : y <= x

Exit(code) ==
  /\ pc' = "exited"
  /\ exit_status' = <<code>>

----------------------------------------------------------------------------
(* download_models.py: download_with_retry *)

\* for attempt in range(max_retries)
InRangeOffByOne(a, n) == a <= n
InRange(a, n) == a < n

\* if attempt < max_retries - 1
ShouldSleepAlways(a, n) == a < n
ShouldSleep(a, n) == a < n - 1

\* except Exception as e   (line 26)
CaughtByRetry(e) == e \in ExceptionKinds

\* return <val> from download_with_retry to its caller
Return(val) ==
  /\ rets' = Append(rets, val)
  /\ exit_status' = exit_status
  /\ IF caller = "call" THEN
       /\ pc' = "returned"
       /\ UNCHANGED <<repo_id, max_retries, attempt, caller>>
     ELSE IF caller = "main1" THEN
       \* main: download_with_retry('unsloth/Meta-Llama-3.1-8B-Instruct')
       /\ pc' = "for"
       /\ repo_id' = Llama
       /\ max_retries' = DefaultMaxRetries
       /\ attempt' = 0
       /\ caller' = "main2"
     ELSE
       \* main: verify_models()
       /\ pc' = "v_import"
       /\ UNCHANGED <<repo_id, max_retries, attempt, caller>>

\* print FATAL; sys.exit(1)
GiveUpReturnsFalse(e) ==
  /\ log' = Append(Append(log, Event("download", repo_id, e)),
                   Event("print", repo_id, "FATAL"))
  /\ Return(FALSE)
GiveUp(e) ==
  /\ log' = Append(Append(log, Event("download", repo_id, e)),
                   Event("print", repo_id, "FATAL"))
  /\ Exit(1)
  /\ UNCHANGED dlVars

\* The loop head: enter the body, or fall out of the loop to `return False`.
LoopHead ==
  /\ pc = "for"
  /\ IF InRange(attempt, max_retries) THEN
       /\ pc' = "try"
       /\ UNCHANGED <<dlVars, log, exit_status>>
     ELSE
       /\ log' = log
       /\ Return(FALSE)
  /\ UNCHANGED ckVars

\* snapshot_download returns: print, return True
DownloadSucceedsNoReturn ==
  /\ pc = "try"
  /\ log' = Append(log, Event("download", repo_id, "ok"))
  /\ pc' = "for"
  /\ attempt' = attempt + 1
  /\ UNCHANGED <<repo_id, max_retries, caller, rets, exit_status, ckVars>>
DownloadSucceeds ==
  /\ pc = "try"
  /\ log' = Append(log, Event("download", repo_id, "ok"))
  /\ Return(TRUE)
  /\ UNCHANGED ckVars

\* snapshot_download raises e
DownloadFailsNoSleep ==
  /\ pc = "try"
  /\ \E e \in DownloadErrors :
       IF CaughtByRetry(e) THEN
         IF ShouldSleep(attempt, max_retries) THEN
           /\ log' = Append(log, Event("download", repo_id, e))
           /\ pc' = "for"
           /\ attempt' = attempt + 1
           /\ UNCHANGED <<repo_id, max_retries, caller, rets, exit_status>>
         ELSE GiveUp(e)
       ELSE
         /\ log' = Append(log, Event("download", repo_id, e))
         /\ Exit(1)
         /\ UNCHANGED dlVars
  /\ UNCHANGED ckVars
DownloadFails ==
  /\ pc = "try"
  /\ \E e \in DownloadErrors :
       IF CaughtByRetry(e) THEN
         IF ShouldSleep(attempt, max_retries) THEN
           /\ log' = Append(log, Event("download", repo_id, e))
           /\ pc' = "sleep"
           /\ UNCHANGED <<dlVars, exit_status>>
         ELSE GiveUp(e)
       ELSE
         /\ log' = Append(log, Event("download", repo_id, e))
         /\ Exit(1)
         /\ UNCHANGED dlVars
  /\ UNCHANGED ckVars

\* time.sleep(10), then the next iteration
Sleep ==
  /\ pc = "sleep"
  /\ log' = Append(log, Event("sleep", repo_id, "10s"))
  /\ attempt' = attempt + 1
  /\ pc' = "for"
  /\ UNCHANGED <<repo_id, max_retries, caller, rets, exit_status, ckVars>>

----------------------------------------------------------------------------
(* download_models.py: verify_models *)

\* except Exception as e   (line 100)
CaughtByVerifyAll(e) == TRUE
CaughtByVerifyNone(e) == FALSE
CaughtByVerify(e) == e \in ExceptionKinds

\* size_gb < 20, with the total size held in MiB
SizeBelowThreshold(total) == total < SizeThresholdGB * MiBPerGiB

\* The tokens the lower-cased path of a cache directory contains.
LowerTokens(d) ==
  CASE d = HiDreamDir -> {"hidream"}
    [] d = LlamaDir -> {"llama", "meta"}
    [] d = MetaDir -> {"meta"}
    [] OTHER -> {}

\* any('hidream' in str(d).lower() for d in cache_dirs)
HidreamFound(dirs) == \E d \in dirs : "hidream" \in LowerTokens(d)
\* any('llama' in str(d).lower() or 'meta' in str(d).lower() for d in cache_dirs)
LlamaFound(dirs) ==
  \E d \in dirs : "llama" \in LowerTokens(d) \/ "meta" \in LowerTokens(d)

\* e is raised inside the try block, after the events of l: the handler
\* prints the warning and verify_models returns; an exception the handler
\* does not match leaves main and ends the process with status 1.
VerifyRaise(l, e) ==
  IF CaughtByVerify(e) THEN
    /\ log' = Append(l, Event("print", "verify", "VERIFICATION WARNING"))
    /\ pc' = "main_end"
    /\ exit_status' = exit_status
  ELSE
    /\ log' = Append(l, Event("uncaught", "verify", e))
    /\ Exit(1)

\* One offline from_pretrained call: it returns, or raises e.
LoadStep(at, what, next) ==
  /\ pc = at
  /\ \/ /\ log' = Append(log, Event("load", what, "ok"))
        /\ pc' = next
        /\ exit_status' = exit_status
     \/ \E e \in LoadErrors :
          VerifyRaise(Append(log, Event("load", what, e)), e)
  /\ UNCHANGED <<dlVars, ckVars>>

\* print; from transformers import ...; from diffusers import ...
VerifyImport ==
  /\ pc = "v_import"
  /\ \/ /\ log' = Append(log, Event("verify", "start", "ok"))
        /\ pc' = "v_test1"
        /\ exit_status' = exit_status
     \/ VerifyRaise(Append(log, Event("verify", "start", "ImportError")),
                    "ImportError")
  /\ UNCHANGED <<dlVars, ckVars>>

VerifyTokenizer == LoadStep("v_test1", "tokenizer", "v_test2")
VerifyConfig == LoadStep("v_test2", "config", "v_test3")
VerifyVAE == LoadStep("v_test3", "vae", "v_test4")

\* Test 4: the cache directory and its size
VerifyCacheSizeStrict ==
  /\ pc = "v_test4"
  /\ \/ \E total \in CacheSizes :
          IF SizeBelowThreshold(total) THEN
            VerifyRaise(Append(Append(log, Event("cache_size", "verify", "below")),
                               Event("print", "verify", "FATAL")), SystemExit)
          ELSE
            /\ log' = Append(log, Event("cache_size", "verify", "enough"))
            /\ pc' = "v_test5"
            /\ exit_status' = exit_status
     \/ VerifyRaise(Append(Append(log, Event("cache_dir", "verify", "absent")),
                           Event("print", "verify", "FATAL")), SystemExit)
  /\ UNCHANGED <<dlVars, ckVars>>
VerifyCacheSize ==
  /\ pc = "v_test4"
  /\ \/ \* the directory exists and its files are summed
        \E total \in CacheSizes :
          /\ log' = IF SizeBelowThreshold(total)
                    THEN Append(Append(log, Event("cache_size", "verify", "below")),
                                Event("print", "verify", "WARNING size"))
                    ELSE Append(log, Event("cache_size", "verify", "enough"))
          /\ pc' = "v_test5"
          /\ exit_status' = exit_status
     \/ \* the directory exists and walking it raises
        VerifyRaise(Append(log, Event("cache_size", "verify", "OSError")), "OSError")
     \/ \* the directory does not exist: print FATAL; sys.exit(1)
        VerifyRaise(Append(Append(log, Event("cache_dir", "verify", "absent")),
                           Event("print", "verify", "FATAL")), SystemExit)
  /\ UNCHANGED <<dlVars, ckVars>>

\* Test 5: the directory names, then the closing prints
VerifyDirs ==
  /\ pc = "v_test5"
  /\ \/ \E dirs \in SUBSET DirNames :
          /\ log' = Append(Append(log,
                      Event("glob", "verify",
                            IF HidreamFound(dirs) /\ LlamaFound(dirs)
                            THEN "Test 5 PASSED" ELSE "WARNING dirs")),
                      Event("print", "verify", "ALL PASSED"))
          /\ pc' = "main_end"
          /\ exit_status' = exit_status
     \/ VerifyRaise(Append(log, Event("glob", "verify", "OSError")), "OSError")
  /\ UNCHANGED <<dlVars, ckVars>>

----------------------------------------------------------------------------
(* download_models.py: main *)

\* print; download_with_retry('HiDream-ai/HiDream-I1-Full')
MainStart ==
  /\ pc = "main_start"
  /\ pc' = "for"
  /\ repo_id' = HiDream
  /\ max_retries' = DefaultMaxRetries
  /\ attempt' = 0
  /\ caller' = "main1"
  /\ UNCHANGED <<rets, log, exit_status, ckVars>>

\* print the completion line; the script ends
MainEnd ==
  /\ pc = "main_end"
  /\ log' = Append(log, Event("print", "main", "complete"))
  /\ Exit(0)
  /\ UNCHANGED <<dlVars, ckVars>>

----------------------------------------------------------------------------
(* test_cache.py: check_model_cache *)

\* required_files.get(repo_id, [...])
RequiredFiles(r) ==
  CASE r = HiDream ->
         <<"config.json", "model.safetensors.index.json",
           "diffusion_pytorch_model.safetensors", "tokenizer.json",
           "tokenizer_config.json", "special_tokens_map.json">>
    [] r = Llama ->
         <<"config.json", "tokenizer.json", "tokenizer_config.json",
           "special_tokens_map.json", "model.safetensors.index.json",
           "generation_config.json">>
    [] OTHER -> <<"config.json", "model.safetensors", "tokenizer.json">>

\* What try_to_load_from_cache gives back: a path, or None.
LookupResults == {"path", "None"}
\* if cached_path:
Truthy(res) == res # "None"

\* if missing_files: return len(missing_files) < len(files_to_check) // 2
\* return len(cached_files) > 0
ClassifyAtMostHalf(missing, cached, files) ==
  IF missing # <<>> THEN Len(missing) <= Len(files) \div 2 ELSE Len(cached) > 0
Classify(missing, cached, files) ==
  IF missing # <<>> THEN Len(missing) < Len(files) \div 2 ELSE Len(cached) > 0

\* check_model_cache returns val to main's loop:
\*   if not cached: all_cached = False
CkReturn(val, how, missing, cached) ==
  /\ verdicts' = Append(verdicts,
                        [repo |-> repo_id', cached |-> val, how |-> how,
                         missing |-> Len(missing), found |-> Len(cached),
                         total |-> Len(RequiredFiles(repo_id'))])
  /\ all_cached' = IF ~val THEN FALSE ELSE all_cached
  /\ mi' = mi + 1
  /\ pc' = "ck_model"

\* test_cache.main up to the loop: the cache size is printed, or that it
\* cannot be computed, or that the directory does not exist.
CkStart ==
  /\ pc = "ck_start"
  /\ \E shown \in {"size", "unable", "absent"} :
       log' = Append(log, Event("print", "main", shown))
  /\ all_cached' = TRUE
  /\ mi' = 1
  /\ pc' = "ck_model"
  /\ UNCHANGED <<dlVars, exit_status, cached_files, missing_files, fi,
                 can_load, verdicts>>

\* for model in models: cached = check_model_cache(model, cache_dir), up to
\* the existence test of the cache directory; after the loop, the load.
CkModel ==
  /\ pc = "ck_model"
  /\ IF mi <= Len(Models) THEN
       /\ repo_id' = Models[mi]
       /\ \/ \* the cache directory does not exist: return False
             /\ CkReturn(FALSE, "no_dir", <<>>, <<>>)
             /\ UNCHANGED <<cached_files, missing_files, fi>>
          \/ /\ cached_files' = <<>>
             /\ missing_files' = <<>>
             /\ fi' = 1
             /\ pc' = "ck_file"
             /\ UNCHANGED <<mi, all_cached, verdicts>>
     ELSE
       /\ pc' = "ck_load_tokenizer"
       /\ UNCHANGED <<repo_id, cached_files, missing_files, fi, mi,
                      all_cached, verdicts>>
  /\ UNCHANGED <<max_retries, attempt, caller, rets, log, exit_status, can_load>>

\* One iteration of `for filename in files_to_check`, or, after the last
\* one, the classification.
CkFile ==
  /\ pc = "ck_file"
  /\ repo_id' = repo_id
  /\ IF fi <= Len(RequiredFiles(repo_id)) THEN
       \/ \E res \in LookupResults :
            /\ cached_files' = IF Truthy(res)
                               THEN Append(cached_files, RequiredFiles(repo_id)[fi])
                               ELSE cached_files
            /\ missing_files' = IF Truthy(res)
                                THEN missing_files
                                ELSE Append(missing_files, RequiredFiles(repo_id)[fi])
            /\ fi' = fi + 1
            /\ UNCHANGED <<pc, mi, all_cached, verdicts>>
       \/ \* the lookup raises: except Exception: return False
          /\ CkReturn(FALSE, "raised", missing_files, cached_files)
          /\ UNCHANGED <<cached_files, missing_files, fi>>
     ELSE
       /\ CkReturn(Classify(missing_files, cached_files, RequiredFiles(repo_id)),
                   "classified", missing_files, cached_files)
       /\ UNCHANGED <<cached_files, missing_files, fi>>
  /\ UNCHANGED <<max_retries, attempt, caller, rets, log, exit_status, can_load>>

----------------------------------------------------------------------------
(* test_cache.py: simulate_training_load and the end of main *)

\* import transformers; AutoTokenizer.from_pretrained(...)
CkLoadTokenizer ==
  /\ pc = "ck_load_tokenizer"
  /\ \/ /\ log' = Append(log, Event("load", "tokenizer", "ok"))
        /\ pc' = "ck_load_config"
        /\ can_load' = can_load
     \/ \E e \in LoadErrors \cup {"ImportError"} :
          /\ log' = Append(log, Event("load", "tokenizer", e))
          /\ pc' = "ck_exit"
          /\ can_load' = <<FALSE>>
  /\ UNCHANGED <<dlVars, exit_status, cached_files, missing_files, fi, mi,
                 all_cached, verdicts>>

\* AutoConfig.from_pretrained(...); return True
CkLoadConfig ==
  /\ pc = "ck_load_config"
  /\ \/ /\ log' = Append(log, Event("load", "config", "ok"))
        /\ can_load' = <<TRUE>>
     \/ \E e \in LoadErrors :
          /\ log' = Append(log, Event("load", "config", e))
          /\ can_load' = <<FALSE>>
  /\ pc' = "ck_exit"
  /\ UNCHANGED <<dlVars, exit_status, cached_files, missing_files, fi, mi,
                 all_cached, verdicts>>

\* if all_cached and can_load: exit(0) elif all_cached: exit(1) else: exit(2)
ExitCodeSwapped(cachedAll, loadable) ==
  IF cachedAll /\ loadable THEN 0 ELSE IF cachedAll THEN 2 ELSE 1
ExitCode(cachedAll, loadable) ==
  IF cachedAll /\ loadable THEN 0 ELSE IF cachedAll THEN 1 ELSE 2

CkExit ==
  /\ pc = "ck_exit"
  /\ Exit(ExitCode(all_cached, can_load[1]))
  /\ UNCHANGED <<dlVars, log, ckVars>>

----------------------------------------------------------------------------
(* Specifications *)

InitCommon ==
  /\ rets = <<>>
  /\ log = <<>>
  /\ exit_status = <<>>
  /\ cached_files = <<>>
  /\ missing_files = <<>>
  /\ fi = 0
  /\ mi = 0
  /\ all_cached = TRUE
  /\ can_load = <<>>
  /\ verdicts = <<>>

\* A call download_with_retry(repo_id, max_retries) on its own.
InitRetry ==
  /\ InitCommon
  /\ pc = "for"
  /\ repo_id \in {HiDream, Llama}
  /\ max_retries \in RetryCeilings
  /\ attempt = 0
  /\ caller = "call"

NextRetry ==
  \/ LoopHead
  \/ DownloadSucceeds
  \/ DownloadFails
  \/ Sleep

SpecRetry == InitRetry /\ [][NextRetry]_vars

\* The script download_models.py.
InitDownloader ==
  /\ InitCommon
  /\ pc = "main_start"
  /\ repo_id = HiDream
  /\ max_retries = DefaultMaxRetries
  /\ attempt = 0
  /\ caller = "main1"

NextDownloader ==
  \/ MainStart
  \/ LoopHead
  \/ DownloadSucceeds
  \/ DownloadFails
  \/ Sleep
  \/ VerifyImport
  \/ VerifyTokenizer
  \/ VerifyConfig
  \/ VerifyVAE
  \/ VerifyCacheSize
  \/ VerifyDirs
  \/ MainEnd

SpecDownloader == InitDownloader /\ [][NextDownloader]_vars

\* The script test_cache.py.
InitChecker ==
  /\ InitCommon
  /\ pc = "ck_start"
  /\ repo_id = HiDream
  /\ max_retries = DefaultMaxRetries
  /\ attempt = 0
  /\ caller = "none"

NextChecker ==
  \/ CkStart
  \/ CkModel
  \/ CkFile
  \/ CkLoadTokenizer
  \/ CkLoadConfig
  \/ CkExit

SpecChecker == InitChecker /\ [][NextChecker]_vars

----------------------------------------------------------------------------
(* Observations on the log *)

IsDownload(i) == log[i][1] = "download"
IsFailedDownload(i) == log[i][1] = "download" /\ log[i][3] # "ok"
IsOkDownload(i) == log[i][1] = "download" /\ log[i][3] = "ok"
IsSleep(i) == log[i][1] = "sleep"

Attempts(r) == Count("download", r)
Sleeps(r) == Count("sleep", r)
Successes(r) == {i \in Positions("download", r) : log[i][3] = "ok"}
Running == exit_status = <<>>

\* Every sleep directly follows a failed attempt and directly precedes the
\* next attempt, and two attempts of a call are separated by one sleep.
SleepsBetweenAttempts ==
  \A i \in DOMAIN log :
    /\ IsSleep(i) => /\ i > 1
                     /\ IsFailedDownload(i - 1)
                     /\ i < Len(log) => IsDownload(i + 1)
    /\ (IsDownload(i) /\ \E j \in DOMAIN log : j > i /\ IsDownload(j)
                                      /\ log[j][2] = log[i][2])
         => IsSleep(i + 1)

----------------------------------------------------------------------------
(* Claims about download_with_retry, checked under SpecRetry *)

\* C1: with a ceiling N >= 1 and every download call raising, the function
\* makes exactly N attempts, sleeps exactly N-1 times (between consecutive
\* attempts, never after the last), then ends the process with status 1 and
\* never returns to its caller.
C1_AllFailuresExhaust ==
  (max_retries >= 1 /\ Successes(repo_id) = {}) =>
    /\ pc # "returned"
    /\ rets = <<>>
    /\ Attempts(repo_id) <= max_retries
    /\ Sleeps(repo_id) <= max_retries - 1
    /\ SleepsBetweenAttempts
    /\ (pc = "exited") = (exit_status # <<>>)
    /\ pc = "exited" =>
         /\ exit_status = <<1>>
         /\ Attempts(repo_id) = max_retries
         /\ Sleeps(repo_id) = max_retries - 1
         /\ ~IsSleep(Len(log))
         /\ IsFailedDownload(Len(log) - 1)
    /\ pc # "exited" => ENABLED (LoopHead \/ DownloadFails \/ Sleep)

C1_Witness ==
  /\ pc = "exited"
  /\ max_retries = DefaultMaxRetries
  /\ Successes(repo_id) = {}
  /\ Attempts(repo_id) = DefaultMaxRetries
  /\ Sleeps(repo_id) = DefaultMaxRetries - 1

\* C2: when the first download call succeeds, the function has made exactly
\* one attempt, has not slept, has not ended the process, and returns True.
C2_FirstSuccessReturns ==
  (Len(log) >= 1 /\ IsOkDownload(1)) =>
    /\ max_retries >= 1
    /\ Attempts(repo_id) = 1
    /\ Sleeps(repo_id) = 0
    /\ Len(log) = 1
    /\ Running
    /\ pc = "returned"
    /\ rets = <<TRUE>>
    /\ ~ENABLED NextRetry

C2_Witness ==
  /\ max_retries = MaxRetries
  /\ Len(log) = 1
  /\ IsOkDownload(1)
  /\ rets = <<TRUE>>

\* C9: when the download raises on attempts 1..k-1 and succeeds on attempt
\* k <= N, the function makes exactly k attempts, sleeps exactly k-1 times,
\* each sleep after a failed attempt and before the next attempt, makes no
\* attempt after the successful one, does not exit, and returns True.
C9_SuccessOnAttemptK ==
  (Successes(repo_id) # {}) =>
    LET k == Attempts(repo_id) IN
    /\ 1 <= k /\ k <= max_retries
    /\ Successes(repo_id) = {Len(log)}
    /\ Len(log) = 2 * k - 1
    /\ \A i \in 1..(k - 1) :
         /\ IsFailedDownload(2 * i - 1)
         /\ log[2 * i - 1][3] \in DownloadErrors
         /\ IsSleep(2 * i)
    /\ Sleeps(repo_id) = k - 1
    /\ SleepsBetweenAttempts
    /\ Running
    /\ pc = "returned"
    /\ rets = <<TRUE>>
    /\ ~ENABLED NextRetry

C9_Witness ==
  /\ max_retries = MaxRetries
  /\ rets = <<TRUE>>
  /\ Attempts(repo_id) = MaxRetries
  /\ Sleeps(repo_id) = MaxRetries - 1
  /\ {log[1][3], log[3][3]} = {"ConnectionError", "OSError"}

\* C10: the function ends in exactly one of three ways: it returns True
\* (some attempt succeeded), it ends the process with status 1 (N >= 1 and
\* all N attempts failed), or it returns False; it returns False only when
\* max_retries <= 0, then without any attempt, sleep or exit, so the final
\* `return False` is unreachable for N >= 1.
C10_ThreeOutcomes ==
  /\ pc \in {"for", "try", "sleep", "returned", "exited"}
  /\ pc \in {"for", "try", "sleep"} => (ENABLED NextRetry /\ Running /\ rets = <<>>)
  /\ pc = "returned" =>
       /\ ~ENABLED NextRetry
       /\ Running
       /\ \/ rets = <<TRUE>> /\ Successes(repo_id) # {}
          \/ rets = <<FALSE>> /\ max_retries <= 0 /\ log = <<>>
  /\ pc = "exited" =>
       /\ ~ENABLED NextRetry
       /\ rets = <<>>
       /\ exit_status = <<1>>
       /\ max_retries >= 1
       /\ Successes(repo_id) = {}
       /\ Attempts(repo_id) = max_retries
  /\ max_retries <= 0 => (log = <<>> /\ Running /\ pc \in {"for", "returned"})
  /\ max_retries >= 1 => rets # <<FALSE>>

C10_Witness ==
  /\ pc = "returned"
  /\ rets = <<FALSE>>
  /\ max_retries = 0
  /\ log = <<>>

----------------------------------------------------------------------------
(* Claims about the script download_models.py, checked under SpecDownloader *)

At(i, kind, subject, detail) == i \in DOMAIN log /\ log[i] = Event(kind, subject, detail)
VerifyStarted == \E i \in DOMAIN log : log[i][1] = "verify"
LoadsFailed == {i \in DOMAIN log : log[i][1] = "load" /\ log[i][3] # "ok"}
LoadsOk == {log[i][2] : i \in {j \in DOMAIN log : log[j][1] = "load" /\ log[j][3] = "ok"}}
CacheDirAbsent == \E i \in DOMAIN log : log[i] = Event("cache_dir", "verify", "absent")
Completed == log # <<>> /\ log[Len(log)] = Event("print", "main", "complete")

C4_LoadFailureIsWarning ==
  \A i \in LoadsFailed :
    /\ log[i][2] \in {"tokenizer", "config", "vae"}
    /\ At(i + 1, "print", "verify", "VERIFICATION WARNING")
    /\ Len(log) \in {i + 1, i + 2}
    /\ Len(log) = i + 1 => (pc = "main_end" /\ Running /\ ENABLED MainEnd)
    /\ Len(log) = i + 2 => (Completed /\ pc = "exited" /\ exit_status = <<0>>)

C4_Witness ==
  /\ \E i \in LoadsFailed : log[i][2] = "vae"
  /\ Completed
  /\ exit_status = <<0>>

\* C7: the script runs download 1, download 2, verify, exit in that order:
\* the second download is attempted only after the first succeeded, verify
\* runs only after both succeeded, and once the retries of a download are
\* exhausted the process ends with a non-zero status and nothing follows.
C7_StrictSequence ==
  /\ \A j \in Positions("download", Llama) :
       \E i \in Successes(HiDream) :
         /\ i < j
         /\ \A h \in Positions("download", HiDream) : h <= i
  /\ \A j \in DOMAIN log :
       log[j][2] \in {"verify", "start", "tokenizer", "config", "vae", "main"} =>
         /\ \E i \in Successes(HiDream) : i < j
         /\ \E i \in Successes(Llama) : i < j
         /\ \A h \in DOMAIN log : IsDownload(h) => h < j
         /\ rets = <<TRUE, TRUE>>
  /\ Cardinality(Successes(HiDream)) <= 1
  /\ Cardinality(Successes(Llama)) <= 1
  /\ \A r \in {HiDream, Llama} :
       (Successes(r) = {} /\ Attempts(r) = DefaultMaxRetries) =>
         /\ Len(log) = Max(Positions("download", r)) + 1
         /\ log[Len(log)] = Event("print", r, "FATAL")
         /\ pc = "exited"
         /\ exit_status = <<1>>
         /\ ~ENABLED NextDownloader
  /\ \A r \in {HiDream, Llama} : Attempts(r) <= DefaultMaxRetries

C7_Witness ==
  /\ Successes(HiDream) # {}
  /\ Successes(Llama) = {}
  /\ Attempts(Llama) = DefaultMaxRetries
  /\ exit_status = <<1>>

\* C8: with the three loads successful and the cache directory present, a
\* cache below 20 GB only prints a warning: the directory-name check runs
\* next and the process ends with status 0, just as for 20 GB or more.
C8_SmallCacheIsWarning ==
  \A i \in DOMAIN log :
    (log[i][1] = "cache_size" /\ log[i][3] \in {"below", "enough"}) =>
      LET n == IF log[i][3] = "below" THEN i + 1 ELSE i IN
      /\ LoadsOk = {"tokenizer", "config", "vae"}
      /\ log[i][3] = "below" => At(i + 1, "print", "verify", "WARNING size")
      /\ Len(log) >= n
      /\ Len(log) = n => (pc = "v_test5" /\ Running /\ ENABLED VerifyDirs)
      /\ Len(log) > n => log[n + 1][1] = "glob"
      /\ ~Running => (exit_status = <<0>> /\ Completed)

C8_Witness ==
  /\ \E i \in DOMAIN log : log[i] = Event("cache_size", "verify", "below")
  /\ \E i \in DOMAIN log : log[i][1] = "glob" /\ log[i][3] = "WARNING dirs"
  /\ Completed
  /\ exit_status = <<0>>

----------------------------------------------------------------------------
(* Claims about the script test_cache.py, checked under SpecChecker *)

EveryModelCached == \A i \in DOMAIN verdicts : verdicts[i].cached
LoadSucceeded ==
  /\ \E i \in DOMAIN log : log[i] = Event("load", "tokenizer", "ok")
  /\ \E i \in DOMAIN log : log[i] = Event("load", "config", "ok")
LoadRan == \E i \in DOMAIN log : log[i][1] = "load"

\* C5: every run checks both models and runs the simulated load, and ends
\* with exactly one of three codes: 0 iff every model is classified cached
\* and the load succeeds, 1 iff every model is classified cached and the
\* load fails, 2 iff some model is classified not cached.
C5_ExitCodeTable ==
  /\ Running => ENABLED NextChecker
  /\ ~Running =>
       /\ pc = "exited"
       /\ ~ENABLED NextChecker
       /\ Len(verdicts) = Len(Models)
       /\ \A i \in DOMAIN verdicts : verdicts[i].repo = Models[i]
       /\ LoadRan
       /\ exit_status \in {<<0>>, <<1>>, <<2>>}
       /\ (exit_status = <<0>>) = (EveryModelCached /\ LoadSucceeded)
       /\ (exit_status = <<1>>) = (EveryModelCached /\ ~LoadSucceeded)
       /\ (exit_status = <<2>>) = (~EveryModelCached)

C5_Witness ==
  /\ exit_status = <<1>>
  /\ EveryModelCached
  /\ ~LoadSucceeded
  /\ verdicts[1].missing = 2

====
